---- MODULE Spec2Model ----
(***************************************************************************)
(* Duty-schedule analysis (DMHCAIT/python-code).                           *)
(*                                                                         *)
(* The directory of the scripts holds the input files                      *)
(* "Untitled spreadsheet - Sheet*.csv" (rows ID, Name, Status, DateTime,   *)
(* no header) and the report files the scripts write.  duty_analyzer.py    *)
(* reads Sheet3, prints the schedule and writes four CSV reports;          *)
(* employee_lookup.py and create_html_dashboard.py read every file that    *)
(* matches the pattern.  dashboard.py and employee_lookup.py are Streamlit *)
(* applications: every interaction reruns main() with the values of the    *)
(* widgets, and the loaders are memoised by st.cache_data.                 *)
(*                                                                         *)
(* Representation.  A timestamp string "YYYY-MM-DD hh:mm:ss" is the tuple  *)
(* <<day, hh, mm, ss>> (day = number of the calendar day); pandas cannot   *)
(* parse it when hh:mm:ss is no time.  A parsed datetime is the number     *)
(* of seconds since midnight of day 0.  A number of hours with two         *)
(* decimals is an integer number of hundredths of an hour.  The ID column  *)
(* is read and carried along but no computation ever looks at it, so rows  *)
(* are modelled without it.                                                *)
(***************************************************************************)
EXTENDS Integers, Sequences, FiniteSets, TLC

VARIABLES
    fs,        \* input files of the directory: file name -> sequence of rows
    reports,   \* report files of the directory: file name -> content
    analyzer,  \* outcome of the last run of duty_analyzer.py
    lookup,    \* employee_lookup.py: what st.cache_data holds for load_data
    html,      \* outcome of the last run of create_html_dashboard.py
    dash,      \* dashboard.py: what st.cache_data holds for its two loaders
    view,      \* dashboard.py: what the last run of main() put on the page
    lview,     \* employee_lookup.py: what the last run of main() showed
    launcher   \* launcher.py: where its main() stands and what it has done

vars == <<fs, reports, analyzer, lookup, html, dash, view, lview, launcher>>

----------------------------------------------------------------------------
(* Bounds and input domains *)

MaxRows == 3

Sheet1 == "Untitled spreadsheet - Sheet1.csv"

Sheet3 == "Untitled spreadsheet - Sheet3.csv"

\* the file names somebody may use in the directory, in sorted() order
FileOrder == <<Sheet1, Sheet3>>

NameOrder == <<"alice", "bob">>

Names == {NameOrder[i] : i \in 1..Len(NameOrder)}

\* the two statuses the scripts look for, and one they do not know
Statuses == {"DutyOn", "DutyOff"}

Unknown == "Break"

\* a timestamp text that is no time of any day, as "2024-01-01 99:00:00"
BadText == <<0, 99, 0, 0>>

TimeStamps == {<<0, 8, 0, 0>>, <<0, 8, 5, 0>>, <<0, 17, 0, 0>>, <<1, 1, 0, 0>>}

\* the rows somebody may export to Sheet3: every event of the first
\* employee, a day shift of the second, and a row of unknown status
Rows == [Name : {NameOrder[1]}, Status : Statuses, DateTime : TimeStamps]
        \cup {[Name |-> NameOrder[2], Status |-> "DutyOn",
                DateTime |-> <<0, 8, 0, 0>>],
               [Name |-> NameOrder[2], Status |-> "DutyOff",
                DateTime |-> <<0, 17, 0, 0>>],
               [Name |-> NameOrder[1], Status |-> Unknown,
                DateTime |-> <<0, 8, 0, 0>>]}

\* the rows somebody may export when every script is in play: a shift, a row
\* of unknown status and a row whose timestamp is not a date
LoadRows == {[Name |-> NameOrder[1], Status |-> "DutyOn",
              DateTime |-> <<0, 8, 0, 0>>],
             [Name |-> NameOrder[1], Status |-> "DutyOff",
              DateTime |-> <<0, 17, 0, 0>>],
             [Name |-> NameOrder[2], Status |-> Unknown,
              DateTime |-> <<1, 1, 0, 0>>],
             [Name |-> NameOrder[1], Status |-> "DutyOn",
              DateTime |-> BadText]}

SecondsPerHour == 3600

----------------------------------------------------------------------------
(* Generic helpers standing for Python / pandas primitives *)

Range(s) == {s[i] : i \in 1..Len(s)}

RECURSIVE SumSeq(_)
SumSeq(s) == IF s = <<>> THEN 0 ELSE Head(s) + SumSeq(Tail(s))

\* str < str of Python on the names of the model
NameRank(n) == CHOOSE i \in 1..Len(NameOrder) : NameOrder[i] = n

\* sorted(set of integers)
RECURSIVE SortedInts(_)
SortedInts(S) ==
    IF S = {} THEN <<>>
    ELSE LET m == CHOOSE x \in S : \A y \in S : x <= y
         IN  <<m>> \o SortedInts(S \ {m})

\* insertion of e into the sorted sequence s after every element whose key
\* is not larger (stable)
RECURSIVE InsertByKey(_, _, _)
InsertByKey(s, e, key) ==
    IF s = <<>> THEN <<e>>
    ELSE IF key[e] < key[Head(s)] THEN <<e>> \o s
         ELSE <<Head(s)>> \o InsertByKey(Tail(s), e, key)

\* DataFrame.sort_values on one integer column: ascending, rows with equal
\* keys keep their order (numpy sorts short arrays by insertion)
RECURSIVE SortValues(_, _)
SortValues(s, key) ==
    IF s = <<>> THEN <<>>
    ELSE InsertByKey(SortValues(SubSeq(s, 1, Len(s) - 1), key), s[Len(s)], key)

\* a sort by DateTime that leaves the rows as they are
ByDateTimeUnsorted(s) == s

ByDateTime(s) == SortValues(s, [e \in Range(s) |-> e.DateTime])

ByDate(s) == SortValues(s, [e \in Range(s) |-> e.Date])

ByName(s) == SortValues(s, [e \in Range(s) |-> NameRank(e.Name)])

\* df[df[col] == v]
WithName(s, n) == SelectSeq(s, LAMBDA e : e.Name = n)

WithDateUnfiltered(s, d) == s

WithDate(s, d) == SelectSeq(s, LAMBDA e : e.Date = d)

WithStatusUnfiltered(s, st) == s

WithStatus(s, st) == SelectSeq(s, LAMBDA e : e.Status = st)

\* sorted(df['Name'].unique())
RECURSIVE NamesFrom(_, _)
NamesFrom(i, present) ==
    IF i > Len(NameOrder) THEN <<>>
    ELSE (IF NameOrder[i] \in present THEN <<NameOrder[i]>> ELSE <<>>)
         \o NamesFrom(i + 1, present)

SortedNames(s) == NamesFrom(1, {e.Name : e \in Range(s)})

\* sorted(df['Date'].unique())
SortedDates(s) == SortedInts({e.Date : e \in Range(s)})

----------------------------------------------------------------------------
(* Loading *)

\* pd.to_datetime on one cell
Parseable(text) ==
    text[2] \in 0..23 /\ text[3] \in 0..59 /\ text[4] \in 0..59

ToDatetime(text) == ((text[1] * 24 + text[2]) * 60 + text[3]) * 60 + text[4]

\* .dt.date and .dt.time of a parsed datetime
\* a date that is the same for two consecutive days
DtDateTwoDays(dt) == dt \div (2 * 24 * 3600)

DtDate(dt) == dt \div (24 * 3600)

DtTime(dt) == dt % (24 * 3600)

\* the three column assignments that follow pd.read_csv
AddColumns(raw) ==
    [i \in 1..Len(raw) |->
        LET dt == ToDatetime(raw[i].DateTime)
        IN  [Name |-> raw[i].Name, Status |-> raw[i].Status,
             DateTime |-> dt, Date |-> DtDate(dt), Time |-> DtTime(dt)]]

AllParseable(raw) == \A i \in 1..Len(raw) : Parseable(raw[i].DateTime)

----------------------------------------------------------------------------
(* Hours with two decimals *)

RECURSIVE Pow2Mod(_, _)
Pow2Mod(e, m) == IF e = 0 THEN 1 % m ELSE (2 * Pow2Mod(e - 1, m)) % m

RECURSIVE Pow2(_)
Pow2(e) == IF e = 0 THEN 1 ELSE 2 * Pow2(e - 1)

\* the binary exponent j of n/200: 2^j <= n/200 < 2^(j+1)
RECURSIVE ExpUp(_, _)
ExpUp(n, j) == IF 200 * Pow2(j + 1) <= n THEN ExpUp(n, j + 1) ELSE j

RECURSIVE ExpDown(_, _)
ExpDown(n, k) == IF n * Pow2(k) < 200 THEN ExpDown(n, k + 1) ELSE k

BinExp(n) == IF n >= 200 THEN ExpUp(n, 0) ELSE 0 - ExpDown(n, 0)

\* secs / 3600 lies exactly between q/100 and (q+1)/100: the double nearest
\* to (2q+1)/200 lies below it, above it, or is it (then the even hundredth
\* wins).  The remainder of (2q+1) * 2^(52-j) by 200 tells which.
TieUp(q) ==
    LET n   == 2 * q + 1
        rem == ((n % 200) * Pow2Mod(52 - BinExp(n), 200)) % 200
    IN  IF rem = 0 THEN q % 2 = 1 ELSE rem > 100

RoundPos(secs) ==
    LET q == (secs * 100) \div SecondsPerHour
        r == (secs * 100) % SecondsPerHour
    IN  IF 2 * r < SecondsPerHour THEN q
        ELSE IF 2 * r > SecondsPerHour THEN q + 1
        ELSE IF TieUp(q) THEN q + 1 ELSE q

\* int(secs / 3600 * 100) / 100 in place of round
Truncate2(secs) ==
    IF secs < 0 THEN 0 - (((0 - secs) * 100) \div SecondsPerHour)
    ELSE (secs * 100) \div SecondsPerHour

\* round(total_seconds / 3600, 2) and f"{total_seconds / 3600:.2f}", in
\* hundredths of an hour
Round2(secs) == IF secs < 0 THEN 0 - RoundPos(0 - secs) ELSE RoundPos(secs)

----------------------------------------------------------------------------
(* duty_analyzer.py *)

\* df.sort_values(['Name', 'Date', 'DateTime'])
SortNameDateTime(df) == ByName(ByDate(ByDateTime(df)))

\* the nested "for ... in ...: list.append(...)" loops: the lists of the
\* iterations one after the other
RECURSIVE Flatten(_)
Flatten(ss) == IF ss = <<>> THEN <<>> ELSE Head(ss) \o Flatten(Tail(ss))

\* .iloc[-1] in place of .iloc[0], and the reverse
FirstOnTakesLast(date_data) ==
    LET duty_on == WithStatus(date_data, "DutyOn") IN duty_on[Len(duty_on)]

LastOffTakesFirst(date_data) == WithStatus(date_data, "DutyOff")[1]

\* first DutyOn and last DutyOff of the rows of one employee on one date, as
\* .iloc[0] and .iloc[-1] find them
FirstOn(date_data) == WithStatus(date_data, "DutyOn")[1]

LastOff(date_data) ==
    LET duty_off == WithStatus(date_data, "DutyOff") IN duty_off[Len(duty_off)]

\* a guard that also wants the DutyOff after the DutyOn
BothSidesInOrder(date_data) ==
    /\ WithStatus(date_data, "DutyOn") # <<>>
    /\ WithStatus(date_data, "DutyOff") # <<>>
    /\ LET duty_on  == WithStatus(date_data, "DutyOn")
           duty_off == WithStatus(date_data, "DutyOff")
       IN  duty_off[Len(duty_off)].DateTime >= duty_on[1].DateTime

BothSides(date_data) ==
    /\ WithStatus(date_data, "DutyOn") # <<>>
    /\ WithStatus(date_data, "DutyOff") # <<>>

\* duration.total_seconds() of last_off - first_on
DurationSeconds(date_data) ==
    LastOff(date_data).DateTime - FirstOn(date_data).DateTime

\* the two nested loops "for name in sorted names / for date in sorted dates
\* of the person": the (name, date, date_data) of the iterations, in order.
\* create_csv_reports sorts the person's rows by DateTime first,
\* analyze_duty_schedule takes them as df_sorted has them.
PerGroup(df, resort) ==
    LET names == SortedNames(df)
        OfPerson(name) ==
            LET person_data == IF resort THEN ByDateTime(WithName(df, name))
                               ELSE WithName(df, name)
                dates       == SortedDates(person_data)
            IN  [j \in 1..Len(dates) |->
                    [name |-> name, date |-> dates[j],
                     date_data |-> WithDate(person_data, dates[j])]]
    IN  Flatten([i \in 1..Len(names) |-> OfPerson(names[i])])

\* analyze_duty_schedule: the "Total duty time" line of one date of a person
PrintedOf(name, date, date_data) ==
    IF BothSides(date_data)
    THEN <<[Name |-> name, Date |-> date,
            Hours |-> Round2(DurationSeconds(date_data))]>>
    ELSE <<>>

PrintedDutyTimes(df_sorted) ==
    LET g == PerGroup(df_sorted, FALSE)
    IN  Flatten([i \in 1..Len(g) |->
                    PrintedOf(g[i].name, g[i].date, g[i].date_data)])

\* create_csv_reports, 1: person-wise schedule
PersonScheduleDistinct(df) ==
    LET names == SortedNames(df)
        all   == Flatten([i \in 1..Len(names) |->
                             ByDateTime(WithName(df, names[i]))])
        first == {i \in 1..Len(all) : \A j \in 1..(i - 1) : all[j] # all[i]}
        idx   == SortedInts(first)
    IN  [k \in 1..Len(idx) |-> all[idx[k]]]

PersonSchedule(df) ==
    LET names == SortedNames(df)
    IN  Flatten([i \in 1..Len(names) |-> ByDateTime(WithName(df, names[i]))])

\* create_csv_reports, 2: date-wise schedule
DateSchedule(df) ==
    LET dates == SortedDates(df)
    IN  Flatten([i \in 1..Len(dates) |-> ByDateTime(WithDate(df, dates[i]))])

\* a summary that takes its dates from the DutyOn rows
DailySummaryOfDutyOnDates(df) ==
    LET dates == SortedDates(WithStatus(df, "DutyOn"))
    IN  [i \in 1..Len(dates) |->
            LET date_data == WithDate(df, dates[i])
            IN  [Date |-> dates[i],
                 Total_DutyOn |-> Len(WithStatus(date_data, "DutyOn")),
                 Total_DutyOff |-> Len(WithStatus(date_data, "DutyOff")),
                 Unique_Employees |->
                     Cardinality({e.Name : e \in Range(date_data)})]]

\* create_csv_reports, 3: daily summary
DailySummary(df) ==
    LET dates == SortedDates(df)
    IN  [i \in 1..Len(dates) |->
            LET date_data == WithDate(df, dates[i])
            IN  [Date |-> dates[i],
                 Total_DutyOn |-> Len(WithStatus(date_data, "DutyOn")),
                 Total_DutyOff |-> Len(WithStatus(date_data, "DutyOff")),
                 Unique_Employees |->
                     Cardinality({e.Name : e \in Range(date_data)})]]

\* one session for every DutyOn of the date in place of one for the date
SessionPerDutyOn(name, date, date_data) ==
    LET duty_on  == WithStatus(date_data, "DutyOn")
        duty_off == WithStatus(date_data, "DutyOff")
    IN  IF duty_on # <<>> /\ duty_off # <<>>
        THEN [k \in 1..Len(duty_on) |->
                [Name |-> name, Date |-> date,
                 Duty_On_Time |-> duty_on[k].Time,
                 Duty_Off_Time |-> duty_off[Len(duty_off)].Time,
                 Work_Hours |-> Round2(duty_off[Len(duty_off)].DateTime
                                       - duty_on[k].DateTime)]]
        ELSE <<>>

\* create_csv_reports, 4: what one date of a person adds to work_hours
SessionOf(name, date, date_data) ==
    IF BothSides(date_data)
    THEN <<[Name |-> name, Date |-> date,
            Duty_On_Time |-> FirstOn(date_data).Time,
            Duty_Off_Time |-> LastOff(date_data).Time,
            Work_Hours |-> Round2(DurationSeconds(date_data))]>>
    ELSE <<>>

\* create_csv_reports, 4: employee work hours
WorkHours(df) ==
    LET g == PerGroup(df, TRUE)
    IN  Flatten([i \in 1..Len(g) |->
                    SessionOf(g[i].name, g[i].date, g[i].date_data)])

\* the values the local variable "duration" takes in that loop, in seconds
DurationOf(name, date, date_data) ==
    IF BothSides(date_data) THEN <<DurationSeconds(date_data)>> ELSE <<>>

Durations(df) ==
    LET g == PerGroup(df, TRUE)
    IN  Flatten([i \in 1..Len(g) |->
                    DurationOf(g[i].name, g[i].date, g[i].date_data)])

PersonFile == "duty_schedule_by_person.csv"

DateFile == "duty_schedule_by_date.csv"

SummaryFile == "daily_duty_summary.csv"

HoursFile == "employee_work_hours.csv"

\* the files create_csv_reports leaves in the directory: the first three are
\* always written, employee_work_hours.csv only when there is a session
create_csv_reports(df, dir) ==
    LET three == (PersonFile :> PersonSchedule(df))
                 @@ (DateFile :> DateSchedule(df))
                 @@ (SummaryFile :> DailySummary(df))
        work_hours == WorkHours(df)
    IN  IF work_hours # <<>>
        THEN (HoursFile :> work_hours) @@ three @@ dir
        ELSE three @@ dir

NotRun == [ran |-> FALSE, returncode |-> 0, message |-> "", df |-> <<>>,
           printed |-> <<>>, work_hours |-> <<>>, durations |-> <<>>]

\* python duty_analyzer.py: the __main__ block around analyze_duty_schedule.
\* A missing file is reported on stdout and the process ends normally; an
\* unparseable timestamp ends it with the traceback of pd.to_datetime.
AnalyzerProcess ==
    IF Sheet3 \notin DOMAIN fs
    THEN /\ analyzer' = [ran |-> TRUE, returncode |-> 0,
                         message |-> "Error: File not found", df |-> <<>>,
                         printed |-> <<>>, work_hours |-> <<>>, durations |-> <<>>]
         /\ UNCHANGED <<fs, reports, lookup, html, dash, view, lview>>
    ELSE IF ~AllParseable(fs[Sheet3])
    THEN /\ analyzer' = [ran |-> TRUE, returncode |-> 1,
                         message |-> "Traceback", df |-> <<>>,
                         printed |-> <<>>, work_hours |-> <<>>, durations |-> <<>>]
         /\ UNCHANGED <<fs, reports, lookup, html, dash, view, lview>>
    ELSE LET df_sorted == SortNameDateTime(AddColumns(fs[Sheet3]))
         IN  /\ analyzer' = [ran |-> TRUE, returncode |-> 0,
                             message |-> "ANALYSIS COMPLETE!",
                             df |-> df_sorted,
                             printed |-> PrintedDutyTimes(df_sorted),
                             work_hours |-> WorkHours(df_sorted),
                             durations |-> Durations(df_sorted)]
             /\ reports' = create_csv_reports(df_sorted, reports)
             /\ UNCHANGED <<fs, lookup, html, dash, view, lview>>

\* python duty_analyzer.py started from a shell
RunAnalyzer == AnalyzerProcess /\ UNCHANGED launcher

----------------------------------------------------------------------------
(* The directory: somebody exports rows into an input file *)

TotalRows ==
    SumSeq([i \in 1..Len(FileOrder) |->
               IF FileOrder[i] \in DOMAIN fs THEN Len(fs[FileOrder[i]]) ELSE 0])

AppendRow(f, r) ==
    /\ TotalRows < MaxRows
    /\ fs' = IF f \in DOMAIN fs
             THEN [fs EXCEPT ![f] = Append(@, r)]
             ELSE (f :> <<r>>) @@ fs
    /\ UNCHANGED <<reports, analyzer, lookup, html, dash, view, lview, launcher>>

\* somebody exports the sheet again: the file is overwritten by the new rows
OverwriteFile(f, rows) ==
    /\ f \in DOMAIN fs
    /\ rows # <<>> /\ Len(rows) <= MaxRows
    /\ fs' = [fs EXCEPT ![f] = rows]
    /\ UNCHANGED <<reports, analyzer, lookup, html, dash, view, lview, launcher>>

----------------------------------------------------------------------------
(* employee_lookup.py and create_html_dashboard.py: every matching file *)

\* the matching files in the opposite order, as a glob.glob without
\* sorted() may return them
GlobUnsorted(dir) ==
    LET files == SelectSeq(FileOrder, LAMBDA f : f \in DOMAIN dir)
    IN  [i \in 1..Len(files) |-> files[Len(files) + 1 - i]]

\* sorted(glob.glob(pattern)): the matching files of the directory
Glob(dir) == SelectSeq(FileOrder, LAMBDA f : f \in DOMAIN dir)

\* pd.concat of pd.read_csv of the files, ignore_index=True
Concat(dir, files) == Flatten([i \in 1..Len(files) |-> dir[files[i]]])

NotFound == "FileNotFoundError"

\* the body of load_data without the check "if not files: raise": pd.concat
\* of an empty list raises ValueError
LoadDataUnchecked(dir) ==
    LET files == Glob(dir)
    IN  IF files = <<>> \/ ~AllParseable(Concat(dir, files))
        THEN [raised |-> FALSE, value |-> "None", rows |-> <<>>,
              error |-> "ValueError"]
        ELSE [raised |-> FALSE, value |-> "DataFrame",
              rows |-> AddColumns(Concat(dir, files)), error |-> ""]

\* the body of employee_lookup.load_data: what it returns and the exception
\* it reports with st.error; "except Exception" catches every exception and
\* ends in "return None", so nothing is ever raised to the caller
LoadData(dir) ==
    LET files == Glob(dir)
    IN  IF files = <<>>
        THEN [raised |-> FALSE, value |-> "None", rows |-> <<>>,
              error |-> NotFound]
        ELSE IF ~AllParseable(Concat(dir, files))
        THEN [raised |-> FALSE, value |-> "None", rows |-> <<>>,
              error |-> "ValueError"]
        ELSE [raised |-> FALSE, value |-> "DataFrame",
              rows |-> AddColumns(Concat(dir, files)), error |-> ""]

NotCalled == [cached |-> FALSE, raised |-> FALSE, value |-> "", rows |-> <<>>,
              error |-> ""]

\* a call of employee_lookup.load_data under @st.cache_data: the first call
\* runs the body and the cache keeps what it returned, every later call gets
\* that value back
LookupLoadData ==
    /\ lookup' = IF lookup.cached THEN lookup
                 ELSE [cached |-> TRUE] @@ LoadData(fs)
    /\ UNCHANGED <<fs, reports, analyzer, html, dash, view, lview, launcher>>

HtmlFile == "duty_dashboard.html"

\* the "Employee Summary" table: one row per name, names ascending
EmployeeSummary(df) ==
    LET names == SortedNames(df)
    IN  [i \in 1..Len(names) |->
            LET rows == WithName(df, names[i])
            IN  [Employee |-> names[i],
                 Total |-> Len(rows),
                 Duty_On |-> Len(WithStatus(rows, "DutyOn")),
                 Duty_Off |-> Len(WithStatus(rows, "DutyOff")),
                 Unique_Days |-> Cardinality({e.Date : e \in Range(rows)})]]

\* what create_html_dashboard puts into duty_dashboard.html: the five
\* metrics, the employee summary and, when employee_work_hours.csv can be
\* read, the hours of the work-hours charts
HtmlContent(df, dir) ==
    LET dates == SortedDates(df)
    IN  [Total_Records |-> Len(df),
         Unique_Employees |-> Cardinality({e.Name : e \in Range(df)}),
         Duty_On_Records |-> Len(WithStatus(df, "DutyOn")),
         Duty_Off_Records |-> Len(WithStatus(df, "DutyOff")),
         Days_Tracked |-> dates[Len(dates)] - dates[1] + 1,
         Employee_Summary |-> EmployeeSummary(df),
         Work_Hours |->
             IF HoursFile \in DOMAIN dir
             THEN [i \in 1..Len(dir[HoursFile]) |-> dir[HoursFile][i].Work_Hours]
             ELSE <<>>]

HtmlNotRun == [ran |-> FALSE, returncode |-> 0, error |-> ""]

\* python create_html_dashboard.py: no matching file raises
\* FileNotFoundError, a timestamp pandas cannot parse raises ValueError; the
\* exception ends the process before anything is written
HtmlDashboardProcess ==
    LET files == Glob(fs)
    IN  IF files = <<>>
        THEN /\ html' = [ran |-> TRUE, returncode |-> 1, error |-> NotFound]
             /\ UNCHANGED <<fs, reports, analyzer, lookup, dash, view, lview>>
        ELSE IF ~AllParseable(Concat(fs, files))
        THEN /\ html' = [ran |-> TRUE, returncode |-> 1, error |-> "ValueError"]
             /\ UNCHANGED <<fs, reports, analyzer, lookup, dash, view, lview>>
        ELSE /\ html' = [ran |-> TRUE, returncode |-> 0, error |-> ""]
             /\ reports' = (HtmlFile :>
                               HtmlContent(AddColumns(Concat(fs, files)), reports))
                           @@ reports
             /\ UNCHANGED <<fs, analyzer, lookup, dash, view, lview>>

\* python create_html_dashboard.py started from a shell
CreateHtmlDashboard == HtmlDashboardProcess /\ UNCHANGED launcher

----------------------------------------------------------------------------
(* dashboard.py: the Streamlit dashboard over the Sheet3 export.  The      *)
(* columns Hour and DayOfWeek, which only the charts read, and the charts  *)
(* themselves are left out.                                                *)

\* the body of dashboard.load_data: it reads Sheet3 and nothing else;
\* "except Exception" reports every exception with st.error and returns None
DashLoadData(dir) ==
    IF Sheet3 \notin DOMAIN dir
    THEN [raised |-> FALSE, value |-> "None", rows |-> <<>>,
          error |-> NotFound]
    ELSE IF ~AllParseable(dir[Sheet3])
    THEN [raised |-> FALSE, value |-> "None", rows |-> <<>>,
          error |-> "ValueError"]
    ELSE [raised |-> FALSE, value |-> "DataFrame",
          rows |-> AddColumns(dir[Sheet3]), error |-> ""]

\* the body of dashboard.load_work_hours: employee_work_hours.csv as the
\* analysis left it, None when it cannot be read
LoadWorkHours(dir) ==
    IF HoursFile \in DOMAIN dir
    THEN [raised |-> FALSE, value |-> "DataFrame", rows |-> dir[HoursFile],
          error |-> ""]
    ELSE [raised |-> FALSE, value |-> "None", rows |-> <<>>,
          error |-> NotFound]

\* @st.cache_data on a function without arguments: the first call runs the
\* body and stores what it returned, every later call of the process gets
\* the stored value, whatever has happened to the files since
CacheData(cache, result) ==
    IF cache.cached THEN cache ELSE [cached |-> TRUE] @@ result

\* the options the widgets of the sidebar offer for a loaded frame: the
\* date picker gives no, one or two dates between the first and the last
\* date of the frame
DateRanges(df) ==
    LET dates == SortedDates(df)
        days  == dates[1]..dates[Len(dates)]
    IN  {<<>>} \cup {<<s>> : s \in days}
               \cup {p \in days \X days : p[1] <= p[2]}

EmployeeSelections(df) == SUBSET ({"All"} \cup {e.Name : e \in Range(df)})

StatusOptions == {"All", "DutyOn", "DutyOff"}

NoEmployee == "Select an employee..."

\* filters whose date range leaves out the end date
ApplyFiltersEndExclusive(df, date_range, selected_employees, status_filter) ==
    LET by_date ==
            IF Len(date_range) = 2
            THEN SelectSeq(df, LAMBDA e : /\ e.Date >= date_range[1]
                                          /\ e.Date < date_range[2])
            ELSE df
        by_employee ==
            IF "All" \notin selected_employees /\ selected_employees # {}
            THEN SelectSeq(by_date, LAMBDA e : e.Name \in selected_employees)
            ELSE by_date
    IN  IF status_filter # "All"
        THEN WithStatus(by_employee, status_filter)
        ELSE by_employee

\* "Apply filters": each filter builds a new frame from the one before
ApplyFilters(df, date_range, selected_employees, status_filter) ==
    LET by_date ==
            IF Len(date_range) = 2
            THEN SelectSeq(df, LAMBDA e : /\ e.Date >= date_range[1]
                                          /\ e.Date <= date_range[2])
            ELSE df
        by_employee ==
            IF "All" \notin selected_employees /\ selected_employees # {}
            THEN SelectSeq(by_date, LAMBDA e : e.Name \in selected_employees)
            ELSE by_date
    IN  IF status_filter # "All"
        THEN WithStatus(by_employee, status_filter)
        ELSE by_employee

\* "Key Metrics Row"; on a frame without rows max() and min() of the Date
\* column are NaN and the float NaN - NaN has no attribute "days"
KeyMetrics(filtered_df) ==
    LET dates == SortedDates(filtered_df)
    IN  [Total_Records |-> Len(filtered_df),
         Unique_Employees |-> Cardinality({e.Name : e \in Range(filtered_df)}),
         Duty_On_Records |-> Len(WithStatus(filtered_df, "DutyOn")),
         Duty_Off_Records |-> Len(WithStatus(filtered_df, "DutyOff")),
         Date_Range_Days |-> dates[Len(dates)] - dates[1] + 1]

\* a cell of a schedule table: a word, or the times joined with ", ", or a
\* number of hours with two decimals
Word(w) == [text |-> w, times |-> <<>>, hours |-> 0]

TimesCell(times) == [text |-> "times", times |-> times, hours |-> 0]

HoursCell(h) == [text |-> "hours", times |-> <<>>, hours |-> h]

TimesOf(records) == [i \in 1..Len(records) |-> records[i].Time]

\* one row of "Detailed Schedule for <employee>"
DashScheduleRow(selected_employee, date, date_records) ==
    LET duty_on_records  == WithStatus(date_records, "DutyOn")
        duty_off_records == WithStatus(date_records, "DutyOff")
    IN  [Date |-> date,
         Name |-> selected_employee,
         Duty_On |-> IF duty_on_records # <<>>
                     THEN TimesCell(TimesOf(duty_on_records))
                     ELSE Word("N/A"),
         Duty_Off |-> IF duty_off_records # <<>>
                      THEN TimesCell(TimesOf(duty_off_records))
                      ELSE Word("N/A"),
         Work_Duration |->
             IF duty_on_records # <<>> /\ duty_off_records # <<>>
             THEN HoursCell(Round2(
                      duty_off_records[Len(duty_off_records)].DateTime
                          - duty_on_records[1].DateTime))
             ELSE Word("N/A"),
         Total_Records |-> Len(date_records)]

\* "Individual Employee Analysis": the schedule of the selected employee,
\* computed from the filtered frame, one row per date, dates ascending
DashSchedule(filtered_df, selected_employee) ==
    IF selected_employee = NoEmployee THEN <<>>
    ELSE LET employee_data == WithName(filtered_df, selected_employee)
             dates == SortedDates(employee_data)
         IN  [i \in 1..Len(dates) |->
                 DashScheduleRow(selected_employee, dates[i],
                                 ByDateTime(WithDate(employee_data, dates[i])))]

\* tab "Daily Summary": groupby('Date'), dates ascending
DashDailySummary(filtered_df) ==
    LET dates == SortedDates(filtered_df)
    IN  [i \in 1..Len(dates) |->
            LET rows == WithDate(filtered_df, dates[i])
            IN  [Date |-> dates[i],
                 Unique_Employees |-> Cardinality({e.Name : e \in Range(rows)}),
                 Total_Records |-> Len(rows),
                 Duty_On_Count |-> Len(WithStatus(rows, "DutyOn")),
                 Duty_Off_Count |-> Len(WithStatus(rows, "DutyOff"))]]

\* an employee summary that counts the rows of a name as its days
DashEmployeeSummaryDaysAsRows(filtered_df) ==
    LET names == SortedNames(filtered_df)
    IN  [i \in 1..Len(names) |->
            LET rows == WithName(filtered_df, names[i])
                times == ByDateTime(rows)
            IN  [Name |-> names[i],
                 Unique_Days |-> Len(rows),
                 Total_Records |-> Len(rows),
                 First_Activity |-> times[1].DateTime,
                 Last_Activity |-> times[Len(times)].DateTime,
                 Duty_On_Count |-> Len(WithStatus(rows, "DutyOn")),
                 Duty_Off_Count |-> Len(WithStatus(rows, "DutyOff"))]]

\* tab "Employee Summary": groupby('Name'), names ascending
DashEmployeeSummary(filtered_df) ==
    LET names == SortedNames(filtered_df)
    IN  [i \in 1..Len(names) |->
            LET rows == WithName(filtered_df, names[i])
                times == ByDateTime(rows)
            IN  [Name |-> names[i],
                 Unique_Days |-> Cardinality({e.Date : e \in Range(rows)}),
                 Total_Records |-> Len(rows),
                 First_Activity |-> times[1].DateTime,
                 Last_Activity |-> times[Len(times)].DateTime,
                 Duty_On_Count |-> Len(WithStatus(rows, "DutyOn")),
                 Duty_Off_Count |-> Len(WithStatus(rows, "DutyOff"))]]

\* "filtered_df = df.copy()", and every filter after it builds a new frame:
\* what the cache holds after the filters have run
LoadedAfterFiltersInPlace(data, filtered_df) ==
    [data EXCEPT !.rows = filtered_df]

LoadedAfterFilters(data, filtered_df) == data

NoView == [ran |-> FALSE, outcome |-> "", date_range |-> <<>>,
           selected_employees |-> {}, status_filter |-> "All",
           selected_employee |-> NoEmployee, filtered_df |-> <<>>,
           metrics |-> <<>>, schedule |-> <<>>, daily_summary |-> <<>>,
           employee_summary |-> <<>>, work_hours |-> <<>>]

NotLoaded == [data |-> NotCalled, hours |-> NotCalled]

\* one run of dashboard.main() with the values the widgets have: the two
\* cached loads, the filters, the metrics, the schedule of the selected
\* employee and the tabs.  Without data the run ends after st.error; when
\* the filters leave no row the metric "Date Range (Days)" raises and the
\* run ends there
DashboardMain(date_range, selected_employees, status_filter, selected_employee) ==
    LET data == CacheData(dash.data, DashLoadData(fs))
        hours == CacheData(dash.hours, LoadWorkHours(reports))
        df == data.rows
        filtered_df == ApplyFilters(df, date_range, selected_employees,
                                    status_filter)
        widgets == [NoView EXCEPT !.ran = TRUE,
                                  !.date_range = date_range,
                                  !.selected_employees = selected_employees,
                                  !.status_filter = status_filter]
    IN  /\ IF data.value = "None"
           THEN /\ view' = [NoView EXCEPT !.ran = TRUE,
                                          !.outcome = "Failed to load data"]
                /\ dash' = [data |-> data, hours |-> hours]
           ELSE /\ date_range \in DateRanges(df)
                /\ selected_employees \in EmployeeSelections(df)
                /\ status_filter \in StatusOptions
                /\ dash' = [data |-> LoadedAfterFilters(data, filtered_df),
                            hours |-> hours]
                /\ IF filtered_df = <<>>
                   THEN view' = [widgets EXCEPT !.outcome = "AttributeError"]
                   ELSE /\ selected_employee \in
                               {NoEmployee} \cup
                                   {e.Name : e \in Range(filtered_df)}
                        /\ view' =
                             [widgets EXCEPT
                                !.outcome = "rendered",
                                !.selected_employee = selected_employee,
                                !.filtered_df = filtered_df,
                                !.metrics = <<KeyMetrics(filtered_df)>>,
                                !.schedule = DashSchedule(filtered_df,
                                                          selected_employee),
                                !.daily_summary =
                                    DashDailySummary(filtered_df),
                                !.employee_summary =
                                    DashEmployeeSummary(filtered_df),
                                !.work_hours =
                                    [i \in 1..Len(hours.rows) |->
                                        hours.rows[i].Work_Hours]]
        /\ UNCHANGED <<fs, reports, analyzer, lookup, html, lview, launcher>>

----------------------------------------------------------------------------
(* employee_lookup.py: the schedule of one employee *)

\* a format_time_list that only joins the times
FormatTimeListJoinOnly(times) == TimesCell(times)

\* format_time_list(times)
format_time_list(times) ==
    IF times = <<>> THEN Word("No records") ELSE TimesCell(times)

\* one row of "Complete Duty Schedule for <employee>"; the column Day, the
\* name of the weekday, is left out
LookupScheduleRow(selected_employee, date, date_data) ==
    LET duty_on_records  == WithStatus(date_data, "DutyOn")
        duty_off_records == WithStatus(date_data, "DutyOff")
    IN  [Date |-> date,
         Name |-> selected_employee,
         Duty_On |-> format_time_list(TimesOf(duty_on_records)),
         Duty_Off |-> format_time_list(TimesOf(duty_off_records)),
         Work_Duration |->
             IF duty_on_records # <<>> /\ duty_off_records # <<>>
             THEN HoursCell(Round2(
                      duty_off_records[Len(duty_off_records)].DateTime
                          - duty_on_records[1].DateTime))
             ELSE Word(""),
         Total_Records |-> Len(date_data)]

LookupSchedule(df, selected_employee) ==
    IF selected_employee = "" THEN <<>>
    ELSE LET employee_data == ByDate(ByDateTime(WithName(df, selected_employee)))
             dates == SortedDates(employee_data)
         IN  [i \in 1..Len(dates) |->
                 LookupScheduleRow(selected_employee, dates[i],
                                   ByDateTime(WithDate(employee_data, dates[i])))]

\* a selection that replaces the loaded frame by the employee's rows
LookupAfterSelectionInPlace(data, selected_employee) ==
    IF selected_employee = "" THEN data
    ELSE [data EXCEPT !.rows = WithName(data.rows, selected_employee)]

\* "employee_data = df[df['Name'] == selected_employee].sort_values(...)"
\* builds a new frame: what the cache holds after the selection
LookupAfterSelection(data, selected_employee) == data

NoLookupView == [ran |-> FALSE, outcome |-> "", selected_employee |-> "",
                 schedule |-> <<>>]

\* one run of employee_lookup.main() with the employee the selectbox holds
LookupMain(selected_employee) ==
    LET data == CacheData(lookup, LoadData(fs))
    IN  /\ IF data.value = "None"
           THEN /\ lookup' = data
                /\ lview' = [NoLookupView EXCEPT !.ran = TRUE,
                                                 !.outcome = "no data"]
           ELSE /\ lookup' = LookupAfterSelection(data, selected_employee)
                /\ selected_employee \in
                       {""} \cup {e.Name : e \in Range(data.rows)}
                /\ lview' = [ran |-> TRUE, outcome |-> "rendered",
                             selected_employee |-> selected_employee,
                             schedule |-> LookupSchedule(data.rows,
                                                         selected_employee)]
        /\ UNCHANGED <<fs, reports, analyzer, html, dash, view, launcher>>

----------------------------------------------------------------------------
(* launcher.py: the menu.  The interpreter .venv/bin/python it starts the  *)
(* scripts with is taken to exist, and a started Streamlit server to       *)
(* return when the user stops it.                                          *)

MaxInvalid == 2

ValidChoices == {"1", "2", "3", "4", "5", "6"}

\* what the user may type at the two prompts
MenuInputs == ValidChoices \cup {"7", "", " 3 ", "y"}

OpenInputs == {"y", "Y", " y ", "n", ""}

\* str.strip() and str.lower() on these inputs
Strip(text) ==
    CASE text = " 3 " -> "3"
      [] text = " y " -> "y"
      [] OTHER -> text

Lower(text) == IF text = "Y" THEN "y" ELSE text

\* an option 3 that opens the dashboard without looking for the file
HtmlFileExistsUnchecked(dir) == TRUE

\* html_file.exists()
HtmlFileExists(dir) == HtmlFile \in DOMAIN dir

NotStarted == [pc |-> "off", choice |-> "", invalid |-> 0, ran |-> <<>>,
               opened |-> 0, message |-> ""]

\* python launcher.py: main() prints the menu and waits at the prompt
LauncherStart ==
    /\ launcher.pc \in {"off", "done"}
    /\ launcher' = [NotStarted EXCEPT !.pc = "menu"]
    /\ UNCHANGED <<fs, reports, analyzer, lookup, html, dash, view, lview>>

\* how main() stands after the branch of a valid choice: every branch
\* ends in "break", option 4 asks before when the generation succeeded
Left(choice, ran, opened, message) ==
    [launcher EXCEPT !.pc = "done", !.choice = choice, !.ran = ran,
                     !.opened = opened, !.message = message]

\* one pass of the "while True" loop: the input at "Select an option
\* (1-6): " and the branch it selects
LauncherChoice(text) ==
    LET choice == Strip(text)
    IN  /\ launcher.pc = "menu"
        /\ CASE choice = "1" ->
                 /\ launcher' = Left(choice, <<"dashboard.py">>, 0, "")
                 /\ UNCHANGED <<fs, reports, analyzer, lookup, html, dash,
                                view, lview>>
              [] choice = "2" ->
                 /\ launcher' = Left(choice, <<"employee_lookup.py">>, 0, "")
                 /\ UNCHANGED <<fs, reports, analyzer, lookup, html, dash,
                                view, lview>>
              [] choice = "3" ->
                 /\ launcher' =
                        IF HtmlFileExists(reports)
                        THEN Left(choice, <<>>, 1, "HTML Dashboard opened")
                        ELSE Left(choice, <<>>, 0, "HTML Dashboard not found")
                 /\ UNCHANGED <<fs, reports, analyzer, lookup, html, dash,
                                view, lview>>
              [] choice = "4" ->
                 /\ HtmlDashboardProcess
                 /\ launcher' =
                        IF html'.returncode = 0
                        THEN [Left(choice, <<"create_html_dashboard.py">>, 0,
                                   "HTML Dashboard generated successfully!")
                                 EXCEPT !.pc = "ask_open"]
                        ELSE Left(choice, <<"create_html_dashboard.py">>, 0,
                                  "Error generating dashboard")
              [] choice = "5" ->
                 /\ AnalyzerProcess
                 /\ launcher' =
                        Left(choice, <<"duty_analyzer.py">>, 0,
                             IF analyzer'.returncode = 0
                             THEN "Data analysis completed successfully!"
                             ELSE "Error in analysis")
              [] choice = "6" ->
                 /\ launcher' = Left(choice, <<>>, 0, "Goodbye!")
                 /\ UNCHANGED <<fs, reports, analyzer, lookup, html, dash,
                                view, lview>>
              [] OTHER ->
                 /\ launcher.invalid < MaxInvalid
                 /\ launcher' = [launcher EXCEPT
                                    !.invalid = @ + 1,
                                    !.message = "Invalid choice"]
                 /\ UNCHANGED <<fs, reports, analyzer, lookup, html, dash,
                                view, lview>>

\* the input at "Would you like to open it now? (y/n): "
LauncherOpenChoice(text) ==
    /\ launcher.pc = "ask_open"
    /\ launcher' = [launcher EXCEPT
                       !.pc = "done",
                       !.opened = IF Lower(Strip(text)) = "y" THEN 1 ELSE 0]
    /\ UNCHANGED <<fs, reports, analyzer, lookup, html, dash, view, lview>>

----------------------------------------------------------------------------
(* The analysis of the Sheet3 export *)

Init ==
    /\ fs = <<>>
    /\ reports = <<>>
    /\ analyzer = NotRun
    /\ lookup = NotCalled
    /\ html = HtmlNotRun
    /\ dash = NotLoaded
    /\ view = NoView
    /\ lview = NoLookupView
    /\ launcher = NotStarted

Export == \E r \in Rows : AppendRow(Sheet3, r)

Next == Export \/ RunAnalyzer

Spec == Init /\ [][Next]_vars

----------------------------------------------------------------------------
(* The scripts side by side on the files of the directory *)

ExportAny == \E f \in Range(FileOrder), r \in LoadRows : AppendRow(f, r)

LoadNext ==
    ExportAny \/ RunAnalyzer \/ LookupLoadData \/ CreateHtmlDashboard

LoadSpec == Init /\ [][LoadNext]_vars

----------------------------------------------------------------------------
(* The dashboard and the filters of its sidebar *)

Days == {t[1] : t \in TimeStamps}

DashRows == {[Name |-> NameOrder[1], Status |-> "DutyOn",
              DateTime |-> <<0, 8, 0, 0>>],
             [Name |-> NameOrder[1], Status |-> "DutyOff",
              DateTime |-> <<0, 17, 0, 0>>],
             [Name |-> NameOrder[1], Status |-> "DutyOff",
              DateTime |-> <<1, 1, 0, 0>>],
             [Name |-> NameOrder[2], Status |-> "DutyOn",
              DateTime |-> <<0, 8, 0, 0>>]}

\* the export is complete before a Streamlit session loads it
DashExport ==
    /\ ~dash.data.cached /\ ~lookup.cached
    /\ \E r \in DashRows : AppendRow(Sheet3, r)

\* the selectbox keeps the employee it holds while the filtered frame still
\* offers that name and falls back to its first option otherwise
KeepEmployee(filtered_df) ==
    IF view.selected_employee \in {e.Name : e \in Range(filtered_df)}
    THEN view.selected_employee ELSE NoEmployee

OnPage == view.ran /\ view.outcome # "Failed to load data"

\* the browser opens the page: main() runs with the defaults of the widgets
DashboardOpen ==
    /\ ~OnPage
    /\ LET df == CacheData(dash.data, DashLoadData(fs)).rows
           dates == SortedDates(df)
       IN  DashboardMain(IF df = <<>> THEN <<>>
                         ELSE <<dates[1], dates[Len(dates)]>>,
                         {"All"}, "All", NoEmployee)

\* the user changes one widget and Streamlit reruns main() with the values
\* all the widgets hold
ChangeDateRange ==
    /\ OnPage
    /\ \E date_range \in {<<s>> : s \in Days} \cup (Days \X Days) :
          DashboardMain(date_range, view.selected_employees,
                        view.status_filter,
                        KeepEmployee(ApplyFilters(dash.data.rows, date_range,
                                                  view.selected_employees,
                                                  view.status_filter)))

ChangeEmployees ==
    /\ OnPage
    /\ \E selected_employees \in SUBSET ({"All"} \cup Names) :
          DashboardMain(view.date_range, selected_employees,
                        view.status_filter,
                        KeepEmployee(ApplyFilters(dash.data.rows,
                                                  view.date_range,
                                                  selected_employees,
                                                  view.status_filter)))

ChangeStatus ==
    /\ OnPage
    /\ \E status_filter \in StatusOptions :
          DashboardMain(view.date_range, view.selected_employees,
                        status_filter,
                        KeepEmployee(ApplyFilters(dash.data.rows,
                                                  view.date_range,
                                                  view.selected_employees,
                                                  status_filter)))

SelectEmployee ==
    /\ OnPage
    /\ \E selected_employee \in {NoEmployee} \cup Names :
          DashboardMain(view.date_range, view.selected_employees,
                        view.status_filter, selected_employee)

DashNext ==
    \/ DashExport
    \/ DashboardOpen
    \/ ChangeDateRange
    \/ ChangeEmployees
    \/ ChangeStatus
    \/ SelectEmployee

DashSpec == Init /\ [][DashNext]_vars

----------------------------------------------------------------------------
(* The two Streamlit applications and the analysis on one export *)

\* the browser opens the page: main() runs with the empty first option
LookupOpen == lview.outcome # "rendered" /\ LookupMain("")

\* the user picks an option of the selectbox and Streamlit reruns main()
LookupSelect ==
    /\ lview.outcome = "rendered"
    /\ \E selected_employee \in {""} \cup Names : LookupMain(selected_employee)

ViewNext ==
    \/ DashExport
    \/ RunAnalyzer
    \/ DashboardOpen
    \/ SelectEmployee
    \/ LookupOpen
    \/ LookupSelect

ViewSpec == Init /\ [][ViewNext]_vars

----------------------------------------------------------------------------
(* The summaries: the HTML dashboard and the filtered Streamlit dashboard *)

SummaryNext ==
    \/ DashExport
    \/ CreateHtmlDashboard
    \/ DashboardOpen
    \/ ChangeStatus

SummarySpec == Init /\ [][SummaryNext]_vars

----------------------------------------------------------------------------
(* The analysis run again and again while the export changes *)

RerunRows == {[Name |-> NameOrder[1], Status |-> "DutyOn",
               DateTime |-> <<0, 8, 0, 0>>],
              [Name |-> NameOrder[1], Status |-> "DutyOff",
               DateTime |-> <<0, 17, 0, 0>>],
              [Name |-> NameOrder[2], Status |-> "DutyOff",
               DateTime |-> <<1, 1, 0, 0>>]}

RerunAppend == \E r \in RerunRows : AppendRow(Sheet3, r)

Reexport == \E r \in RerunRows : OverwriteFile(Sheet3, <<r>>)

RerunNext == RerunAppend \/ Reexport \/ RunAnalyzer

RerunSpec == Init /\ [][RerunNext]_vars

----------------------------------------------------------------------------
(* The analysis of events at the first and the last second of a day *)

DayRows == {[Name |-> NameOrder[1], Status |-> "DutyOn",
             DateTime |-> <<0, 0, 0, 0>>],
            [Name |-> NameOrder[1], Status |-> "DutyOff",
             DateTime |-> <<0, 23, 59, 59>>],
            [Name |-> NameOrder[1], Status |-> "DutyOff",
             DateTime |-> <<0, 0, 0, 0>>],
            [Name |-> NameOrder[1], Status |-> "DutyOn",
             DateTime |-> <<0, 23, 59, 59>>],
            [Name |-> NameOrder[1], Status |-> "DutyOff",
             DateTime |-> <<1, 0, 0, 0>>]}

DayExport == \E r \in DayRows : AppendRow(Sheet3, r)

DayNext == DayExport \/ RunAnalyzer

DaySpec == Init /\ [][DayNext]_vars

----------------------------------------------------------------------------
(* The launcher started again and again while the export grows *)

LauncherReads == \E text \in MenuInputs : LauncherChoice(text)

LauncherAsks == \E text \in OpenInputs : LauncherOpenChoice(text)

LauncherNext ==
    \/ RerunAppend
    \/ LauncherStart
    \/ LauncherReads
    \/ LauncherAsks

LauncherSpec == Init /\ [][LauncherNext]_vars

----------------------------------------------------------------------------
(* Vocabulary of the properties: the events the last completed analysis    *)
(* loaded, grouped by employee name and calendar date                      *)

Completed == analyzer.ran /\ analyzer.message = "ANALYSIS COMPLETE!"

Events == Range(analyzer.df)

Group(n, d) == {e \in Events : e.Name = n /\ e.Date = d}

Ons(n, d) == {e \in Group(n, d) : e.Status = "DutyOn"}

Offs(n, d) == {e \in Group(n, d) : e.Status = "DutyOff"}

Groups == {<<e.Name, e.Date>> : e \in Events}

Paired == {g \in Groups : Ons(g[1], g[2]) # {} /\ Offs(g[1], g[2]) # {}}

EarliestOn(n, d) ==
    CHOOSE e \in Ons(n, d) : \A o \in Ons(n, d) : e.DateTime <= o.DateTime

LatestOff(n, d) ==
    CHOOSE e \in Offs(n, d) : \A o \in Offs(n, d) : e.DateTime >= o.DateTime

\* latest DutyOff minus earliest DutyOn of a group, in seconds
Elapsed(n, d) == LatestOff(n, d).DateTime - EarliestOn(n, d).DateTime

SessionIdx(n, d) ==
    {i \in 1..Len(analyzer.work_hours) :
        analyzer.work_hours[i].Name = n /\ analyzer.work_hours[i].Date = d}

\* h hundredths of an hour is a hundredth nearest to secs seconds
Nearest(h, secs) ==
    /\ h * SecondsPerHour - secs * 100 <= SecondsPerHour \div 2
    /\ secs * 100 - h * SecondsPerHour <= SecondsPerHour \div 2

----------------------------------------------------------------------------
(* Session reconstruction *)

\* C1: a (name, date) group with only DutyOn events or only DutyOff events
\* (or neither) gets no session: no work_hours row, no printed duty time, no
\* row of employee_work_hours.csv.
C1_NoSessionWithoutBothSides ==
    Completed =>
        \A g \in Groups :
            (Ons(g[1], g[2]) = {} \/ Offs(g[1], g[2]) = {}) =>
                /\ SessionIdx(g[1], g[2]) = {}
                /\ \A i \in 1..Len(analyzer.printed) :
                       <<analyzer.printed[i].Name, analyzer.printed[i].Date>> # g
                /\ HoursFile \in DOMAIN reports =>
                       \A i \in 1..Len(reports[HoursFile]) :
                           <<reports[HoursFile][i].Name,
                             reports[HoursFile][i].Date>> # g

C1_Witness ==
    /\ Completed
    /\ \E g \in Groups : Ons(g[1], g[2]) # {} /\ Offs(g[1], g[2]) = {}
    /\ \E g \in Groups : Ons(g[1], g[2]) = {} /\ Offs(g[1], g[2]) # {}

\* C2: a group with both statuses has a session whose on and off times are
\* those of the earliest DutyOn and the latest DutyOff of the group and whose
\* hours are (latest DutyOff - earliest DutyOn) / 3600 to two decimals,
\* whatever other events the group has; 08:00 and 08:05 on with 17:00 off
\* give 9.00 hours.
C2_FirstOnLastOff ==
    Completed =>
        \A g \in Paired :
            /\ SessionIdx(g[1], g[2]) # {}
            /\ \A i \in SessionIdx(g[1], g[2]) :
                   LET s == analyzer.work_hours[i]
                   IN  /\ s.Duty_On_Time = EarliestOn(g[1], g[2]).Time
                       /\ s.Duty_Off_Time = LatestOff(g[1], g[2]).Time
                       /\ Nearest(s.Work_Hours, Elapsed(g[1], g[2]))
                       /\ (/\ s.Duty_On_Time = 8 * 3600
                           /\ s.Duty_Off_Time = 17 * 3600) => s.Work_Hours = 900

C2_Witness ==
    /\ Completed
    /\ \E g \in Paired :
          /\ Cardinality(Ons(g[1], g[2])) = 2
          /\ \E i \in SessionIdx(g[1], g[2]) :
                 /\ analyzer.work_hours[i].Duty_On_Time = 8 * 3600
                 /\ analyzer.work_hours[i].Work_Hours = 900

\* C3 as stated: Work_Hours is the exact duration in hours cut off after two
\* decimals.
C3_Truncated ==
    Completed =>
        \A g \in Paired : \A i \in SessionIdx(g[1], g[2]) :
            analyzer.work_hours[i].Work_Hours = Truncate2(Elapsed(g[1], g[2]))

\* C3 amended: Work_Hours (and the printed duty time) is the exact duration
\* in hours rounded to a nearest hundredth: it differs from the exact
\* duration by at most 0.005 hours.
C3_Rounded ==
    Completed =>
        /\ \A g \in Paired : \A i \in SessionIdx(g[1], g[2]) :
               Nearest(analyzer.work_hours[i].Work_Hours, Elapsed(g[1], g[2]))
        /\ \A i \in 1..Len(analyzer.printed) :
               LET p == analyzer.printed[i]
               IN  <<p.Name, p.Date>> \in Paired
                   /\ Nearest(p.Hours, Elapsed(p.Name, p.Date))

C3_Witness ==
    /\ Completed
    /\ \E g \in Paired : \E i \in SessionIdx(g[1], g[2]) :
           analyzer.work_hours[i].Work_Hours # Truncate2(Elapsed(g[1], g[2]))

\* C4: a group with both statuses gets exactly one session whatever the order
\* of its events, also when the latest DutyOff precedes the earliest DutyOn;
\* the duration has the sign of latest DutyOff minus earliest DutyOn, so it
\* is negative then, and the hours stored are never of the opposite sign.
C4_OneSessionAnyOrder ==
    Completed =>
        /\ Len(analyzer.durations) = Len(analyzer.work_hours)
        /\ \A g \in Paired :
               /\ Cardinality(SessionIdx(g[1], g[2])) = 1
               /\ \A i \in SessionIdx(g[1], g[2]) :
                      LET secs  == analyzer.durations[i]
                          hours == analyzer.work_hours[i].Work_Hours
                          diff  == Elapsed(g[1], g[2])
                      IN  /\ (diff < 0) = (secs < 0)
                          /\ (diff > 0) = (secs > 0)
                          /\ secs < 0 => hours <= 0
                          /\ secs > 0 => hours >= 0
                          /\ secs * 100 <= 0 - SecondsPerHour => hours < 0

C4_Witness ==
    /\ Completed
    /\ \E g \in Paired : \E i \in SessionIdx(g[1], g[2]) :
           /\ Elapsed(g[1], g[2]) < 0
           /\ analyzer.durations[i] < 0
           /\ analyzer.work_hours[i].Work_Hours < 0

\* C5: the hours of a session are not negative when some DutyOff of its group
\* is at or after some DutyOn of the group.
C5_NonNegative ==
    Completed =>
        \A i \in 1..Len(analyzer.work_hours) :
            LET s == analyzer.work_hours[i]
            IN  (\E on \in Ons(s.Name, s.Date), off \in Offs(s.Name, s.Date) :
                     off.DateTime >= on.DateTime)
                => s.Work_Hours >= 0 /\ analyzer.durations[i] >= 0

C5_Witness ==
    /\ Completed
    /\ \E i \in 1..Len(analyzer.work_hours) :
           LET s == analyzer.work_hours[i]
           IN  /\ s.Work_Hours > 0
               /\ \E on \in Ons(s.Name, s.Date), off \in Offs(s.Name, s.Date) :
                      off.DateTime < on.DateTime

C7_SameNameSameDate ==
    Completed =>
        \A i \in 1..Len(analyzer.work_hours) :
            LET s == analyzer.work_hours[i]
            IN  \E on \in Ons(s.Name, s.Date), off \in Offs(s.Name, s.Date) :
                    /\ s.Duty_On_Time = on.Time
                    /\ s.Duty_Off_Time = off.Time
                    /\ analyzer.durations[i] = off.DateTime - on.DateTime
                    /\ Nearest(s.Work_Hours, off.DateTime - on.DateTime)

C7_Witness ==
    /\ Completed
    /\ \E i \in 1..Len(analyzer.work_hours) :
           LET s == analyzer.work_hours[i]
           IN  \E e \in Events :
                   /\ e.Name = s.Name
                   /\ e.Status = "DutyOff"
                   /\ e.Date = s.Date + 1

----------------------------------------------------------------------------
(* Counts and loading *)

\* C8: the DutyOn count plus the DutyOff count is the number of rows loaded:
\* Total_DutyOn + Total_DutyOff over the dates of daily_duty_summary.csv, and
\* Duty On Records + Duty Off Records against Total Records in the HTML
\* dashboard.
C8_CountsPartition ==
    /\ Completed =>
           SumSeq([i \in 1..Len(reports[SummaryFile]) |->
                      reports[SummaryFile][i].Total_DutyOn
                      + reports[SummaryFile][i].Total_DutyOff])
           = Len(analyzer.df)
    /\ HtmlFile \in DOMAIN reports =>
           reports[HtmlFile].Duty_On_Records + reports[HtmlFile].Duty_Off_Records
           = reports[HtmlFile].Total_Records

\* C9: no event whose status is neither DutyOn nor DutyOff is in an event
\* collection a loader hands on: the load fails on such a row.
C9_OnlyKnownStatuses ==
    /\ \A e \in Range(analyzer.df) : e.Status \in Statuses
    /\ \A e \in Range(lookup.rows) : e.Status \in Statuses
    /\ HtmlFile \in DOMAIN reports =>
           \A i \in 1..Len(reports[HtmlFile].Employee_Summary) :
               LET row == reports[HtmlFile].Employee_Summary[i]
               IN  row.Total = row.Duty_On + row.Duty_Off

\* C10 as stated: with the input missing every loader fails with the
\* not-found error raised to its caller; none returns a placeholder or ends
\* as if it had succeeded.
C10_NotFoundPropagates ==
    /\ lookup.error = NotFound => lookup.raised /\ lookup.value # "None"
    /\ analyzer.message = "Error: File not found" => analyzer.returncode # 0
    /\ html.error = NotFound => html.returncode # 0

\* C10 amended: with the input missing no loader yields an event collection
\* or writes a file, but only create_html_dashboard raises the
\* FileNotFoundError to its caller (exit code 1); load_data, when its body
\* runs, catches it and returns None, and duty_analyzer.py prints
\* "Error: File not found" and ends with exit code 0.
C10_NotFoundNoResult ==
    [][/\ (Glob(fs) = <<>> /\ html' # html) =>
              /\ html'.error = NotFound
              /\ html'.returncode = 1
              /\ reports' = reports
       /\ (Glob(fs) = <<>> /\ lookup' # lookup) =>
              /\ lookup'.error = NotFound
              /\ lookup'.value = "None"
              /\ ~lookup'.raised
              /\ lookup'.rows = <<>>
              /\ reports' = reports
       /\ (Sheet3 \notin DOMAIN fs /\ analyzer' # analyzer) =>
              /\ analyzer'.message = "Error: File not found"
              /\ analyzer'.returncode = 0
              /\ analyzer'.df = <<>>
              /\ analyzer'.work_hours = <<>>
              /\ reports' = reports]_vars

C10_Witness ==
    /\ html.ran /\ html.error = NotFound
    /\ lookup.cached /\ lookup.error = NotFound /\ lookup.value = "None"
    /\ analyzer.ran /\ analyzer.message = "Error: File not found"
    /\ reports = <<>>

----------------------------------------------------------------------------
(* C11: the cached load follows the input files.  Once load_data has been  *)
(* called, whatever the next call in the same process returns is what the  *)
(* files of the directory hold now: the events of the current files, also  *)
(* when a file was added or changed after a call that returned None.       *)

C11_CachedLoadFollowsFiles ==
    lookup.cached =>
        /\ CacheData(lookup, LoadData(fs)).value = LoadData(fs).value
        /\ CacheData(lookup, LoadData(fs)).rows = LoadData(fs).rows

----------------------------------------------------------------------------
(* C12: no aggregation fails on an event collection without rows.  When    *)
(* the filters of the dashboard match no event, the run of main() still    *)
(* completes and shows zero counts and empty tables.                       *)

FiltersMatchNothing ==
    /\ OnPage
    /\ ApplyFilters(dash.data.rows, view.date_range, view.selected_employees,
                    view.status_filter) = <<>>

C12_ZeroRowsComplete ==
    FiltersMatchNothing =>
        /\ view.outcome = "rendered"
        /\ Len(view.metrics) = 1
        /\ view.metrics[1].Total_Records = 0
        /\ view.daily_summary = <<>>
        /\ view.employee_summary = <<>>

----------------------------------------------------------------------------
(* C13: a group of one employee and one date that lacks the DutyOn or the  *)
(* DutyOff is no error.  Vocabulary: the rows a schedule view shows for    *)
(* the events it was computed from.                                        *)

\* the events behind the schedule of the dashboard and of the lookup
DashShown ==
    {e \in Range(view.filtered_df) : e.Name = view.selected_employee}

LookupShown == {e \in Range(lookup.rows) : e.Name = lview.selected_employee}

RowsOf(schedule, d) == {i \in 1..Len(schedule) : schedule[i].Date = d}

SideOf(shown, d, st) == {e \in shown : e.Date = d /\ e.Status = st}

OneSided(shown, d) ==
    SideOf(shown, d, "DutyOn") = {} \/ SideOf(shown, d, "DutyOff") = {}

\* every date of the employee has one row in the schedule, and the row of
\* a one-sided date shows the word "duration" as its work duration and the
\* word "missing" as the time list of a side without events
OneRowPerDate(schedule, shown, duration, missing) ==
    \A d \in {e.Date : e \in shown} :
        /\ Cardinality(RowsOf(schedule, d)) = 1
        /\ \A i \in RowsOf(schedule, d) :
              /\ OneSided(shown, d) =>
                     schedule[i].Work_Duration = Word(duration)
              /\ SideOf(shown, d, "DutyOn") = {} =>
                     schedule[i].Duty_On = Word(missing)
              /\ SideOf(shown, d, "DutyOff") = {} =>
                     schedule[i].Duty_Off = Word(missing)

\* C13 as stated: every presentation view shows "N/A" for the work
\* duration and for the missing side of a one-sided date
C13_NotAvailableEverywhere ==
    /\ view.outcome = "rendered" =>
           OneRowPerDate(view.schedule, DashShown, "N/A", "N/A")
    /\ lview.outcome = "rendered" =>
           OneRowPerDate(lview.schedule, LookupShown, "N/A", "N/A")

\* C13 amended: every view shows one row for every date of the employee;
\* for a one-sided date the dashboard shows "N/A" as the work duration and
\* as the missing time list, the employee lookup shows an empty work
\* duration and "No records" as the missing time list
C13_OneRowPerView ==
    /\ view.outcome = "rendered" =>
           OneRowPerDate(view.schedule, DashShown, "N/A", "N/A")
    /\ lview.outcome = "rendered" =>
           OneRowPerDate(lview.schedule, LookupShown, "", "No records")

\* both views show an employee who has a date with a DutyOff and no DutyOn
C13_Witness ==
    /\ view.outcome = "rendered" /\ lview.outcome = "rendered"
    /\ \E d \in Days :
          /\ SideOf(DashShown, d, "DutyOff") # {}
          /\ SideOf(DashShown, d, "DutyOn") = {}
          /\ SideOf(LookupShown, d, "DutyOff") # {}
          /\ SideOf(LookupShown, d, "DutyOn") = {}

----------------------------------------------------------------------------
(* C14: several input files are concatenated in ascending order of their   *)
(* names, the rows of each file in file order, nothing removed: the loaded *)
(* sequence is the rows of Sheet1 followed by the rows of Sheet3 and its   *)
(* length is the sum of the lengths of the files.                          *)

RowsIn(f) == IF f \in DOMAIN fs THEN fs[f] ELSE <<>>

\* the loaded event e is the row raw of a file
LoadedFrom(e, raw) ==
    /\ e.Name = raw.Name
    /\ e.Status = raw.Status
    /\ e.DateTime = ToDatetime(raw.DateTime)

InFileOrder(rows) ==
    /\ Len(rows) = Len(RowsIn(Sheet1)) + Len(RowsIn(Sheet3))
    /\ \A i \in 1..Len(rows) :
          IF i <= Len(RowsIn(Sheet1))
          THEN LoadedFrom(rows[i], RowsIn(Sheet1)[i])
          ELSE LoadedFrom(rows[i], RowsIn(Sheet3)[i - Len(RowsIn(Sheet1))])

\* a step of create_html_dashboard.py that writes duty_dashboard.html
HtmlWritten ==
    /\ fs' = fs /\ analyzer' = analyzer /\ lookup' = lookup
    /\ html'.ran /\ html'.returncode = 0
    /\ html' # html \/ reports' # reports

C14_ConcatInFileOrder ==
    [][/\ (~lookup.cached /\ lookup'.value = "DataFrame" /\ fs' = fs)
           => InFileOrder(lookup'.rows)
       /\ HtmlWritten
           => reports'[HtmlFile].Total_Records
                  = Len(RowsIn(Sheet1)) + Len(RowsIn(Sheet3))]_vars

\* the lookup has loaded two files that hold the same row, and the row of
\* the first file differs from the first row of the second one
C14_Witness ==
    /\ lookup.value = "DataFrame"
    /\ Sheet1 \in DOMAIN fs /\ Sheet3 \in DOMAIN fs
    /\ Len(lookup.rows) = TotalRows
    /\ Len(fs[Sheet1]) = 1 /\ Len(fs[Sheet3]) = 2
    /\ fs[Sheet3][2] = fs[Sheet1][1]
    /\ fs[Sheet3][1] # fs[Sheet1][1]
    /\ InFileOrder(lookup.rows)

----------------------------------------------------------------------------
(* C15: a loader run twice on identical files yields identical events.     *)
(* While the files are the ones the first call read, what a further call   *)
(* returns from the cache is what the body of the loader yields on the     *)
(* files now.                                                              *)

----------------------------------------------------------------------------
(* C16: a date whose only event is one DutyOff still appears in the        *)
(* per-date aggregates, with DutyOff count 1, DutyOn count 0 and one       *)
(* employee, and has no session: every date shows the number of its        *)
(* DutyOn and of its DutyOff events, sessions or not.                      *)

CountAt(df, d, st) ==
    Cardinality({i \in 1..Len(df) : df[i].Date = d /\ df[i].Status = st})

OnlyOneDutyOff(df, d) ==
    /\ Cardinality({i \in 1..Len(df) : df[i].Date = d}) = 1
    /\ CountAt(df, d, "DutyOff") = 1

C16_OneSidedDateCounted ==
    /\ Completed =>
         \A d \in {e.Date : e \in Events} :
            LET rows == {i \in 1..Len(reports[SummaryFile]) :
                            reports[SummaryFile][i].Date = d}
            IN  /\ Cardinality(rows) = 1
                /\ \A i \in rows :
                      /\ reports[SummaryFile][i].Total_DutyOn
                             = CountAt(analyzer.df, d, "DutyOn")
                      /\ reports[SummaryFile][i].Total_DutyOff
                             = CountAt(analyzer.df, d, "DutyOff")
                      /\ OnlyOneDutyOff(analyzer.df, d) =>
                            /\ reports[SummaryFile][i].Total_DutyOn = 0
                            /\ reports[SummaryFile][i].Total_DutyOff = 1
                            /\ reports[SummaryFile][i].Unique_Employees = 1
                            /\ \A j \in 1..Len(analyzer.work_hours) :
                                  analyzer.work_hours[j].Date # d
    /\ view.outcome = "rendered" =>
         \A d \in {e.Date : e \in Range(view.filtered_df)} :
            LET rows == {i \in 1..Len(view.daily_summary) :
                            view.daily_summary[i].Date = d}
            IN  /\ Cardinality(rows) = 1
                /\ \A i \in rows :
                      /\ view.daily_summary[i].Duty_On_Count
                             = CountAt(view.filtered_df, d, "DutyOn")
                      /\ view.daily_summary[i].Duty_Off_Count
                             = CountAt(view.filtered_df, d, "DutyOff")
                      /\ OnlyOneDutyOff(view.filtered_df, d) =>
                            /\ view.daily_summary[i].Duty_On_Count = 0
                            /\ view.daily_summary[i].Duty_Off_Count = 1
                            /\ view.daily_summary[i].Unique_Employees = 1
                            /\ \A j \in 1..Len(view.schedule) :
                                  view.schedule[j].Date = d =>
                                      view.schedule[j].Work_Duration.text
                                          # "hours"

\* the analysis and the dashboard, with the employee selected, have seen a
\* date whose only event is one DutyOff, next to a date with a session
C16_Witness ==
    /\ Completed /\ view.outcome = "rendered"
    /\ analyzer.work_hours # <<>>
    /\ \E d \in Days :
          /\ OnlyOneDutyOff(analyzer.df, d)
          /\ OnlyOneDutyOff(view.filtered_df, d)
          /\ \E j \in 1..Len(view.schedule) : view.schedule[j].Date = d

----------------------------------------------------------------------------
(* C17: the sessions do not depend on the order of the input rows.  Any    *)
(* permutation of the rows of the analysed file, rows with equal           *)
(* timestamps included, yields the set of sessions the analysis wrote.     *)

Permuted(raw, p) == [i \in 1..Len(raw) |-> raw[p[i]]]

\* the last analysis completed, on the file as it is now
Analysed ==
    /\ Completed
    /\ analyzer.df = SortNameDateTime(AddColumns(fs[Sheet3]))

C17_SessionsAnyRowOrder ==
    Analysed =>
        \A p \in Permutations(1..Len(fs[Sheet3])) :
            Range(WorkHours(SortNameDateTime(
                      AddColumns(Permuted(fs[Sheet3], p)))))
                = Range(analyzer.work_hours)

\* a file with a session whose rows are not in the order of their
\* timestamps, two of them with one timestamp
C17_Witness ==
    /\ Analysed
    /\ analyzer.work_hours # <<>>
    /\ \E i, j \in 1..Len(fs[Sheet3]) :
          /\ i < j
          /\ ToDatetime(fs[Sheet3][j].DateTime)
                 < ToDatetime(fs[Sheet3][i].DateTime)
    /\ \E i, j \in 1..Len(fs[Sheet3]) :
          /\ i # j
          /\ fs[Sheet3][i].DateTime = fs[Sheet3][j].DateTime
          /\ fs[Sheet3][i].Status # fs[Sheet3][j].Status

----------------------------------------------------------------------------
(* C18: the per-employee summary lists every employee name once, with the  *)
(* number of its records, of its distinct days and of its DutyOn and       *)
(* DutyOff records (0 when it has none), and the record totals sum to the  *)
(* number of rows.                                                         *)

\* the columns name, records, days, duty on, duty off of the two tables
HtmlSummaryRows(t) ==
    [i \in 1..Len(t) |-> <<t[i].Employee, t[i].Total, t[i].Unique_Days,
                            t[i].Duty_On, t[i].Duty_Off>>]

DashSummaryRows(t) ==
    [i \in 1..Len(t) |-> <<t[i].Name, t[i].Total_Records, t[i].Unique_Days,
                            t[i].Duty_On_Count, t[i].Duty_Off_Count>>]

Of(df, n) == {i \in 1..Len(df) : df[i].Name = n}

Summarises(rows, df) ==
    /\ \A n \in {e.Name : e \in Range(df)} :
          Cardinality({i \in 1..Len(rows) : rows[i][1] = n}) = 1
    /\ \A i \in 1..Len(rows) :
          /\ Of(df, rows[i][1]) # {}
          /\ rows[i][2] = Cardinality(Of(df, rows[i][1]))
          /\ rows[i][3] = Cardinality({df[k].Date : k \in Of(df, rows[i][1])})
          /\ rows[i][4] = Cardinality({k \in Of(df, rows[i][1]) :
                                          df[k].Status = "DutyOn"})
          /\ rows[i][5] = Cardinality({k \in Of(df, rows[i][1]) :
                                          df[k].Status = "DutyOff"})
    /\ SumSeq([i \in 1..Len(rows) |-> rows[i][2]]) = Len(df)

C18_EmployeeSummary ==
    [][/\ HtmlWritten =>
            Summarises(HtmlSummaryRows(reports'[HtmlFile].Employee_Summary),
                       AddColumns(RowsIn(Sheet1) \o RowsIn(Sheet3)))
       /\ view'.outcome = "rendered" =>
            Summarises(DashSummaryRows(view'.employee_summary),
                       view'.filtered_df)]_vars

\* both tables list two employees, one of them with two records on one
\* day and the other without any DutyOff
C18_Witness ==
    /\ HtmlFile \in DOMAIN reports /\ view.outcome = "rendered"
    /\ Len(reports[HtmlFile].Employee_Summary) = 2
    /\ Len(view.employee_summary) = 2
    /\ \E i \in 1..2 : /\ view.employee_summary[i].Total_Records = 2
                        /\ view.employee_summary[i].Unique_Days = 1
                        /\ reports[HtmlFile].Employee_Summary[i].Total = 2
    /\ \E i \in 1..2 : /\ view.employee_summary[i].Duty_Off_Count = 0
                        /\ reports[HtmlFile].Employee_Summary[i].Duty_Off = 0

----------------------------------------------------------------------------
(* C19: the loaded events are never changed after loading.  No run of      *)
(* main() changes what the cache holds, whatever the filters select, and   *)
(* a run whose widgets are back at their defaults shows every event of     *)
(* the loaded file.                                                        *)

\* the widgets of a view hold the values they have when the page opens
FiltersCleared(v, df) ==
    /\ v.selected_employees = {"All"}
    /\ v.status_filter = "All"
    /\ v.date_range = <<SortedDates(df)[1],
                        SortedDates(df)[Len(SortedDates(df))]>>

C19_LoadedNeverMutated ==
    [][/\ dash.data.cached => dash'.data = dash.data
       /\ (view'.outcome = "rendered"
              /\ FiltersCleared(view', AddColumns(fs'[Sheet3])))
           => view'.filtered_df = AddColumns(fs'[Sheet3])]_vars

\* a run for one employee whose filters select a part of the loaded
\* events, with the cache still holding every row of the file
C19_Witness ==
    /\ view.outcome = "rendered"
    /\ view.selected_employee # NoEmployee
    /\ Len(view.filtered_df) < Len(dash.data.rows)
    /\ Len(dash.data.rows) = MaxRows
    /\ dash.data.rows = AddColumns(fs[Sheet3])

----------------------------------------------------------------------------
(* C20: after any sequence of runs of the analysis over changing inputs,   *)
(* each of the four report files holds what the most recent completed run  *)
(* computed from its input; employee_work_hours.csv holds exactly the      *)
(* sessions of that run, no row when that run found no session.            *)

Held(f) == IF f \in DOMAIN reports THEN reports[f] ELSE <<>>

C20_ReportsOfLastRun ==
    Completed =>
        /\ Held(PersonFile) = PersonSchedule(analyzer.df)
        /\ Held(DateFile) = DateSchedule(analyzer.df)
        /\ Held(SummaryFile) = DailySummary(analyzer.df)
        /\ Held(HoursFile) = analyzer.work_hours

----------------------------------------------------------------------------
(* C21: for the same directory contents every entry point loads the same   *)
(* events.  When the analysis, the lookup and the HTML dashboard have all  *)
(* read the files as they are now, the events of the analysis are the      *)
(* events of the lookup and the HTML dashboard counts as many records.     *)

\* the three results were computed from the files of the directory as they
\* are now
AllUpToDate ==
    /\ Analysed
    /\ lookup.value = "DataFrame" /\ lookup.rows = LoadData(fs).rows
    /\ HtmlFile \in DOMAIN reports
    /\ reports[HtmlFile].Total_Records = Len(Concat(fs, Glob(fs)))

C21_SameEventsEverywhere ==
    AllUpToDate =>
        /\ SortNameDateTime(lookup.rows) = analyzer.df
        /\ reports[HtmlFile].Total_Records = Len(analyzer.df)
        /\ DashLoadData(fs).rows = lookup.rows

----------------------------------------------------------------------------
(* C22: in the schedule of the selected employee, every date of the        *)
(* employee inside the selected date range has a row, and the Work         *)
(* Duration of the row is the duration between the earliest DutyOn and the *)
(* latest DutyOff of that date in the loaded events, whatever the status   *)
(* filter is.                                                              *)

\* the loaded events of the selected employee on date d
LoadedAt(d) ==
    {e \in Range(dash.data.rows) :
        e.Name = view.selected_employee /\ e.Date = d}

InDateRange(d) ==
    Len(view.date_range) = 2 =>
        d >= view.date_range[1] /\ d <= view.date_range[2]

\* the session of the loaded events of the employee on date d, in seconds
LoadedSeconds(d) ==
    LET ons  == {e.DateTime : e \in SideOf(LoadedAt(d), d, "DutyOn")}
        offs == {e.DateTime : e \in SideOf(LoadedAt(d), d, "DutyOff")}
    IN  (CHOOSE t \in offs : \A u \in offs : u <= t)
            - (CHOOSE t \in ons : \A u \in ons : t <= u)

C22_DurationWhateverStatus ==
    (view.outcome = "rendered" /\ view.selected_employee # NoEmployee) =>
        \A d \in {e.Date : e \in Range(dash.data.rows)} :
            (LoadedAt(d) # {} /\ InDateRange(d)
                /\ ~OneSided(LoadedAt(d), d)) =>
                \E i \in 1..Len(view.schedule) :
                    /\ view.schedule[i].Date = d
                    /\ view.schedule[i].Work_Duration
                           = HoursCell(Round2(LoadedSeconds(d)))

----------------------------------------------------------------------------
(* C23: the filtered events are exactly the loaded events that satisfy     *)
(* every active filter, in the order of the loaded events: the date range  *)
(* (both ends included) counts only with two endpoints, the employee       *)
(* selection only when it is not empty and does not contain "All", the     *)
(* status filter only when it is not "All".                                *)

Satisfies(e, v) ==
    /\ Len(v.date_range) = 2 =>
           e.Date >= v.date_range[1] /\ e.Date <= v.date_range[2]
    /\ (v.selected_employees # {} /\ "All" \notin v.selected_employees) =>
           e.Name \in v.selected_employees
    /\ v.status_filter # "All" => e.Status = v.status_filter

C23_FilteredIsConjunction ==
    OnPage =>
        /\ view.filtered_df
               = SelectSeq(dash.data.rows, LAMBDA e : Satisfies(e, view))
        /\ view.outcome = "rendered" <=> view.filtered_df # <<>>

\* a date range of one day that is the first of two loaded dates, a
\* selection of "All" with one of the two loaded names, and a status
\* filter: the events of both names on that day remain
C23_Witness ==
    /\ view.outcome = "rendered"
    /\ Len(view.date_range) = 2
    /\ view.date_range[1] = view.date_range[2]
    /\ \E e \in Range(dash.data.rows) : e.Date > view.date_range[2]
    /\ "All" \in view.selected_employees
    /\ Cardinality(view.selected_employees) = 2
    /\ view.status_filter = "DutyOn"
    /\ Cardinality({e.Name : e \in Range(view.filtered_df)}) = 2
    /\ Len(view.filtered_df) < Len(dash.data.rows)

----------------------------------------------------------------------------
(* C24: duty_schedule_by_person.csv and duty_schedule_by_date.csv each     *)
(* hold every event of the analysed file exactly once, the first ordered   *)
(* by name and then by timestamp, the second by date and then by           *)
(* timestamp; daily_duty_summary.csv has one row for every date of the     *)
(* file, dates ascending.                                                  *)

Times(s, e) == Cardinality({i \in 1..Len(s) : s[i] = e})

SameRows(s, t) ==
    /\ Len(s) = Len(t)
    /\ \A e \in Range(s) \cup Range(t) : Times(s, e) = Times(t, e)

C24_ReportsArePermutations ==
    Analysed =>
        LET input  == AddColumns(fs[Sheet3])
            person == reports[PersonFile]
            date   == reports[DateFile]
            daily  == reports[SummaryFile]
        IN  /\ SameRows(person, input)
            /\ SameRows(date, input)
            /\ \A i, j \in 1..Len(person) :
                  i < j =>
                     \/ NameRank(person[i].Name) < NameRank(person[j].Name)
                     \/ /\ person[i].Name = person[j].Name
                        /\ person[i].DateTime <= person[j].DateTime
            /\ \A i, j \in 1..Len(date) :
                  i < j =>
                     \/ date[i].Date < date[j].Date
                     \/ /\ date[i].Date = date[j].Date
                        /\ date[i].DateTime <= date[j].DateTime
            /\ {daily[i].Date : i \in 1..Len(daily)}
                   = {e.Date : e \in Range(input)}
            /\ \A i, j \in 1..Len(daily) :
                  i < j => daily[i].Date < daily[j].Date

\* an analysed file that holds one row twice and whose rows are in the
\* order neither of the names nor of the timestamps
C24_Witness ==
    /\ Analysed
    /\ \E i, j \in 1..Len(fs[Sheet3]) : i < j /\ fs[Sheet3][i] = fs[Sheet3][j]
    /\ \E i, j \in 1..Len(fs[Sheet3]) :
          /\ i < j
          /\ NameRank(fs[Sheet3][j].Name) < NameRank(fs[Sheet3][i].Name)
          /\ ToDatetime(fs[Sheet3][j].DateTime)
                 > ToDatetime(fs[Sheet3][i].DateTime)
    /\ Len(reports[SummaryFile]) = 2

----------------------------------------------------------------------------
(* C26: the duration of every emitted session is less than 24 hours in     *)
(* absolute value, because both events of the session carry one date.      *)

Abs(x) == IF x < 0 THEN 0 - x ELSE x

\* C26 as stated, for the duration the session is emitted with: every
\* Work_Hours is strictly less than 24.00 in absolute value
C26_EmittedBelowDay ==
    Completed =>
        \A i \in 1..Len(analyzer.work_hours) :
            Abs(analyzer.work_hours[i].Work_Hours) < 24 * 100

\* C26 amended: the elapsed time of every session is strictly less than
\* 24 hours in absolute value, and the Work_Hours it is emitted with, being
\* rounded to two decimals, is at most 24.00 in absolute value
C26_ElapsedBelowDay ==
    Completed =>
        /\ Len(analyzer.durations) = Len(analyzer.work_hours)
        /\ \A i \in 1..Len(analyzer.work_hours) :
              /\ analyzer.durations[i]
                     = Elapsed(analyzer.work_hours[i].Name,
                               analyzer.work_hours[i].Date)
              /\ Abs(analyzer.durations[i]) < 24 * SecondsPerHour
              /\ Abs(analyzer.work_hours[i].Work_Hours) <= 24 * 100

\* a session from the first to the last second of a day, emitted with
\* 24.00 hours, in a file that holds a DutyOff of the next day too
C26_Witness ==
    /\ Completed
    /\ \E i \in 1..Len(analyzer.work_hours) :
          /\ analyzer.durations[i] = 24 * SecondsPerHour - 1
          /\ analyzer.work_hours[i].Work_Hours = 24 * 100
    /\ \E e \in Events : e.Date = 1 /\ e.Status = "DutyOff"

----------------------------------------------------------------------------
(* C25: the menu loop of the launcher.  An input that is not one of 1-6    *)
(* does nothing and leaves the launcher at the prompt; the first input in  *)
(* 1-6 runs the action of that option once and ends the loop, so nothing   *)
(* follows it but the question of option 4; option 3 opens the HTML        *)
(* dashboard only if duty_dashboard.html exists, and option 4 asks whether *)
(* to open it only when the generation returned exit code 0.               *)

\* the scripts the options start
ScriptOf(choice) ==
    CASE choice = "1" -> <<"dashboard.py">>
      [] choice = "2" -> <<"employee_lookup.py">>
      [] choice = "4" -> <<"create_html_dashboard.py">>
      [] choice = "5" -> <<"duty_analyzer.py">>
      [] OTHER -> <<>>

NothingElseChanges ==
    UNCHANGED <<fs, reports, analyzer, lookup, html, dash, view, lview>>

C25_OneValidChoice ==
    [][/\ (launcher.pc = "menu" /\ launcher' # launcher) =>
            \/ /\ launcher'.pc = "menu"
               /\ launcher'.choice = "" /\ launcher'.ran = <<>>
               /\ launcher'.opened = 0
               /\ NothingElseChanges
            \/ /\ launcher'.pc \in {"done", "ask_open"}
               /\ launcher'.choice \in ValidChoices
               /\ launcher'.invalid = launcher.invalid
               /\ launcher'.ran = ScriptOf(launcher'.choice)
               /\ launcher'.choice \notin {"4", "5"} => NothingElseChanges
               /\ launcher'.choice = "4" =>
                     /\ html'.ran /\ analyzer' = analyzer
                     /\ launcher'.pc = "ask_open" <=> html'.returncode = 0
               /\ launcher'.choice = "5" =>
                     /\ analyzer'.ran /\ html' = html
               /\ launcher'.choice # "4" => launcher'.pc = "done"
               /\ launcher'.opened = 1 <=>
                     (launcher'.choice = "3" /\ HtmlFile \in DOMAIN reports)
       /\ (launcher.pc = "ask_open" /\ launcher' # launcher) =>
            /\ launcher'.pc = "done"
            /\ launcher'.choice = launcher.choice
            /\ launcher'.ran = launcher.ran
            /\ NothingElseChanges
       /\ (launcher.pc = "done" /\ launcher' # launcher) =>
            launcher' = [NotStarted EXCEPT !.pc = "menu"]]_vars

\* a launcher that, after an invalid input, opened the HTML dashboard an
\* earlier launcher had generated
C25_Witness ==
    /\ launcher.pc = "done"
    /\ launcher.choice = "3"
    /\ launcher.invalid > 0
    /\ launcher.opened = 1
    /\ html.returncode = 0 /\ HtmlFile \in DOMAIN reports

====
